---- MODULE Spec2Model ----
(***************************************************************************)
(* A model of the graph generators of paddison/graph_generator:           *)
(*   - RandomLayout (src/src/lib.rs) / RandomGraph (src/src/random.rs):   *)
(*     build_edges and contains_cycle (the two files hold the same        *)
(*     algorithm, differing only in the random source they draw from);    *)
(*   - comp_graph, CubeGraph and CubeGraphOld (src/src/comm.rs).          *)
(* Vertex ids are naturals, an edge is a pair <<tail, head>>, a Vec is a   *)
(* sequence (Rust index i is TLA+ index i + 1).                           *)
(***************************************************************************)
EXTENDS Integers, Sequences, FiniteSets, TLC

\* ------------------------------------------------------------------ bounds

\* Largest num_edges given to RandomLayout::new / RandomGraph::new.
MaxNumEdges == 4

\* Largest num_edges of the runs checked for termination (SpecLive).
MaxLiveEdges == 3

\* contains_cycle called directly: vertex ids 0..MaxVertex, lists of at most
\* MaxLen edges.
MaxVertex == 2
MaxLen == 3

\* comp_graph: inside and outside in 0..MaxSide, n_layers in 0..MaxLayers.
MaxSide == 3
MaxLayers == 4

\* CubeGraph / CubeGraphOld: width, height, depth in 0..MaxDim, timesteps in
\* 0..MaxTimesteps.
MaxDim == 5
MaxTimesteps == 3

\* Repeated calls: the largest cube dimension, and the largest value of the
\* key a HashSet's RandomState is given.
MaxRepeatDim == 3
MaxHashKey == 2

\* usize is modelled 16 bits wide (the ids of the model stay far below it):
\* usize::MAX, and the modulus of wrapping_sub and wrapping_add.
USIZE_MAX == 65535

VARIABLES
    \* RandomLayout / RandomGraph
    num_edges,          \* the struct's field
    edges,              \* build_edges: let mut edges
    current_edge,       \* build_edges: let current_edge
    next_predecessor,   \* build_edges: the last iteration's next_predecessor
    next_successor,     \* build_edges: the last iteration's next_successor
    pc,                 \* build_edges: where control is
    \* contains_cycle called on its own (tests::test_contains_cycle)
    cc_edges,           \* the slice passed
    cc_ret,             \* "none" before the call, then "true" / "false"
    \* comp_graph
    inside, outside, n_layers,      \* the arguments
    comp_pc,            \* "idle" (not called), "call", "done"
    comp_ret,           \* the Vec returned
    \* CubeGraph / CubeGraphOld
    builder,            \* "CubeGraph" or "CubeGraphOld"
    width, height, depth, timesteps,    \* the arguments of new
    overflow_checks,    \* the build: debug (TRUE) or release (FALSE)
    cube_pc,            \* "idle" (not called), "new", "done"
    cube_ret,           \* build's outcome: [outcome, edges]
    \* one builder called twice with the same arguments
    repeat_pc,          \* "idle" (not done), "start", "once", "twice"
    first_ret,          \* what the first call returned: [outcome, edges]
    second_ret          \* what the second call returned

randVars == <<num_edges, edges, current_edge, next_predecessor, next_successor, pc>>
cycVars == <<cc_edges, cc_ret>>
compVars == <<inside, outside, n_layers, comp_pc, comp_ret>>
cubeVars ==
    <<builder, width, height, depth, timesteps, overflow_checks, cube_pc, cube_ret>>
repeatVars == <<repeat_pc, first_ret, second_ret>>
vars == <<randVars, cycVars, compVars, cubeVars, repeatVars>>

\* ------------------------------------------------------- contains_cycle

\* edges.iter().filter(|(p, _)| edge.1 == *p): in the order of the list,
\* the edge itself included when it is a self-loop.
SuccessorsNoSelf(es, edge) ==
    SelectSeq(es, LAMBDA e : e[1] = edge[2] /\ e # edge)

Successors(es, edge) ==
    SelectSeq(es, LAMBDA e : e[1] = edge[2])

\* while let Some(edge) = frontier.pop() { ... }: the walk from one start
\* edge. frontier is a stack (pop takes the last element); visited is a
\* HashSet of edges compared by value. Gives whether the walk returned true
\* and the visited set it leaves.
RECURSIVE Walk(_, _, _)
Walk(es, frontier, visited) ==
    IF frontier = <<>>
    THEN [found |-> FALSE, visited |-> visited]
    ELSE LET edge == frontier[Len(frontier)]
             rest == SubSeq(frontier, 1, Len(frontier) - 1)
             succ == Successors(es, edge)
         IN  IF \E i \in 1..Len(succ) : succ[i] \in visited
             THEN [found |-> TRUE, visited |-> visited]
             ELSE Walk(es, rest \o succ, visited \cup {edge})

\* for edge in edges { if visited.contains(edge) { continue; } ... }
RECURSIVE Scan(_, _, _)
Scan(es, i, visited) ==
    IF i > Len(es)
    THEN FALSE
    ELSE IF es[i] \in visited
         THEN Scan(es, i + 1, visited)
         ELSE LET w == Walk(es, <<es[i]>>, visited)
              IN  IF w.found THEN TRUE ELSE Scan(es, i + 1, w.visited)

\* A check that walks from the first edge only (the outer for loop lost).
contains_cycle_first_walk(es) ==
    IF es = <<>> THEN FALSE ELSE Walk(es, <<es[1]>>, {}).found

contains_cycle(es) == Scan(es, 1, {})

\* ------------------------------------------------------------ build_edges

\* rng.gen_range(0..edges.len()) / rng.generate_range(edges.len()):
\* the Rust indices the draw can give.
CurrentEdgeDraws(es) == 0..(Len(es) - 1)

\* A draw that leaves out the last vertex: gen_range(0..num_edges).
SuccessorDrawsExclusive(n) == 0..(n - 1)

\* rng.gen_range(0..=self.num_edges) / rng.generate_range(num_edges + 1)
SuccessorDraws(n) == 0..n

\* rng.gen_range(0..2) / rng.generate_range(2)
PredecessorDraws == 0..1

\* edges.iter().find(|e| e == &&next_edge).is_none()
NotPresent(es, next_edge) == \A i \in 1..Len(es) : es[i] # next_edge

\* The body of one iteration of the inner loop, from the two draws: the
\* edge list it leaves, and whether it breaks out of the loop.
LoopBody(es, cur, s, k) ==
    LET p == cur[k + 1]
        next_edge == <<p, s>>
        pushed == Append(es, next_edge)
    IN  IF s = p
        THEN [edges |-> es, brk |-> FALSE]                  \* continue
        ELSE IF ~NotPresent(es, next_edge)
             THEN [edges |-> es, brk |-> FALSE]             \* already there
             ELSE IF contains_cycle(pushed)
                  THEN [edges |-> es, brk |-> FALSE]        \* push, pop
                  ELSE [edges |-> pushed, brk |-> TRUE]     \* push, break

\* let mut rng = ...; let mut edges = vec![(0, 1)];
BuildStart ==
    /\ pc = "new"
    /\ edges' = << <<0, 1>> >>
    /\ pc' = "while"
    /\ UNCHANGED <<num_edges, current_edge, next_predecessor, next_successor>>
    /\ UNCHANGED <<cycVars, compVars, cubeVars, repeatVars>>

\* while edges.len() < self.num_edges as usize { let current_edge = ...
WhileEnter ==
    /\ pc = "while"
    /\ Len(edges) < num_edges
    /\ \E i \in CurrentEdgeDraws(edges) : current_edge' = edges[i + 1]
    /\ pc' = "loop"
    /\ UNCHANGED <<num_edges, edges, next_predecessor, next_successor>>
    /\ UNCHANGED <<cycVars, compVars, cubeVars, repeatVars>>

\* One iteration of loop { ... } with the draws s (next_successor) and
\* k (the index into [current_edge.0, current_edge.1]).
Draw(s, k) ==
    /\ pc = "loop"
    /\ s \in SuccessorDraws(num_edges)
    /\ k \in PredecessorDraws
    /\ LET r == LoopBody(edges, current_edge, s, k)
       IN  /\ edges' = r.edges
           /\ pc' = IF r.brk THEN "while" ELSE "loop"
    /\ next_successor' = s
    /\ next_predecessor' = current_edge[k + 1]
    /\ UNCHANGED <<num_edges, current_edge>>
    /\ UNCHANGED <<cycVars, compVars, cubeVars, repeatVars>>

LoopIteration == \E s \in 0..MaxNumEdges, k \in 0..1 : Draw(s, k)

\* The while condition is false: build_edges returns edges.
Return ==
    /\ pc = "while"
    /\ ~(Len(edges) < num_edges)
    /\ pc' = "done"
    /\ UNCHANGED <<num_edges, edges, current_edge, next_predecessor, next_successor>>
    /\ UNCHANGED <<cycVars, compVars, cubeVars, repeatVars>>

\* RandomLayout::new(num_edges) / RandomGraph::new(num_edges); nothing of
\* build_edges has run, contains_cycle is not called on its own.
CycIdle == cc_edges = <<>> /\ cc_ret = "none"
CompIdle ==
    inside = 0 /\ outside = 0 /\ n_layers = 0 /\ comp_pc = "idle" /\ comp_ret = <<>>
NoCubeRet == [outcome |-> "none", edges |-> <<>>]
CubeIdle ==
    /\ builder = "none"
    /\ width = 0 /\ height = 0 /\ depth = 0 /\ timesteps = 0
    /\ overflow_checks = FALSE
    /\ cube_pc = "idle"
    /\ cube_ret = NoCubeRet
RepeatIdle ==
    repeat_pc = "idle" /\ first_ret = NoCubeRet /\ second_ret = NoCubeRet

Init ==
    /\ num_edges \in 0..MaxNumEdges
    /\ edges = <<>>
    /\ current_edge = <<0, 0>>
    /\ next_predecessor = 0
    /\ next_successor = 0
    /\ pc = "new"
    /\ CycIdle
    /\ CompIdle
    /\ CubeIdle
    /\ RepeatIdle

Next == BuildStart \/ WhileEnter \/ LoopIteration \/ Return

Spec == Init /\ [][Next]_vars

InitLive == Init /\ num_edges <= MaxLiveEdges

\* The random source is fair: every value of each draw recurs, so no draw
\* that stays possible is put off for ever; the loop's own steps are taken.
SpecLive ==
    /\ InitLive
    /\ [][Next]_vars
    /\ WF_vars(BuildStart)
    /\ WF_vars(WhileEnter)
    /\ WF_vars(Return)
    /\ \A s \in 0..MaxNumEdges : \A k \in 0..1 : WF_vars(Draw(s, k))

\* --------------------------------------- contains_cycle called on its own

\* tests::test_contains_cycle: the list the test passes.
TestEdges == << <<0, 1>>, <<0, 5>>, <<0, 2>>, <<2, 5>>, <<5, 0>> >>

\* No build_edges in progress.
RandIdle ==
    /\ num_edges = 0
    /\ edges = <<>>
    /\ current_edge = <<0, 0>>
    /\ next_predecessor = 0
    /\ next_successor = 0
    /\ pc = "idle"

\* Any list of at most MaxLen ordered pairs over 0..MaxVertex (self-loops
\* and repeated pairs included), or the test's list.
InitCycle ==
    /\ RandIdle
    /\ CompIdle
    /\ CubeIdle
    /\ RepeatIdle
    /\ cc_edges \in
           UNION {[1..n -> (0..MaxVertex) \X (0..MaxVertex)] : n \in 0..MaxLen}
               \cup {TestEdges}
    /\ cc_ret = "none"

\* contains_cycle(&cc_edges)
ContainsCycleCall ==
    /\ cc_ret = "none"
    /\ cc_ret' = IF contains_cycle(cc_edges) THEN "true" ELSE "false"
    /\ UNCHANGED <<cc_edges, randVars, compVars, cubeVars, repeatVars>>

NextCycle == ContainsCycleCall

SpecCycle == InitCycle /\ [][NextCycle]_vars

\* --------------------------------------------------------------- comp_graph

\* Vec::get: Some(v[i]) as <<v[i]>>, None as <<>>.
get_wrapped(v, i) == <<v[(i % Len(v)) + 1]>>

get(v, i) == IF i < Len(v) THEN <<v[i + 1]>> ELSE <<>>

wrapping_sub(a, b) == (a - b + USIZE_MAX + 1) % (USIZE_MAX + 1)

wrapping_add(a, b) == (a + b) % (USIZE_MAX + 1)

\* (0..n_layers).map(|i| (i * nodes_per_layer..(i + 1) * nodes_per_layer)
\*     .collect()).collect()
create_layers(nodes_per_layer, layer_count) ==
    [i \in 1..layer_count |->
        [j \in 1..nodes_per_layer |-> (i - 1) * nodes_per_layer + (j - 1)]]

\* The body of for i in 0..inside + outside: the edges pushed for position i.
NeighborEdgesAt(upper, lower, i) ==
    LET vertex == upper[i + 1]
        left == get(lower, wrapping_sub(i, 1))
        right == get(lower, i + 1)
    IN  (IF left # <<>> THEN << <<vertex, left[1]>> >> ELSE <<>>)
            \o << <<vertex, lower[i + 1]>> >>
            \o (IF right # <<>> THEN << <<vertex, right[1]>> >> ELSE <<>>)

\* for i in 0..inside + outside { ... }, from position i on.
RECURSIVE NeighborPositions(_, _, _, _)
NeighborPositions(upper, lower, i, n) ==
    IF i >= n
    THEN <<>>
    ELSE NeighborEdgesAt(upper, lower, i) \o NeighborPositions(upper, lower, i + 1, n)

\* for (upper, lower) in layers.iter().zip(&layers[1..]) { ... }: the pairs
\* (layers[b], layers[b + 1]), from the b-th on.
RECURSIVE NeighborBoundaries(_, _, _)
NeighborBoundaries(layers, b, n) ==
    IF b + 1 > Len(layers)
    THEN <<>>
    ELSE NeighborPositions(layers[b], layers[b + 1], 0, n)
             \o NeighborBoundaries(layers, b + 1, n)

\* for (vertex_upper, vertex_lower) in upper[inside..].iter()
\*     .zip(&lower[inside..]) { push (upper, comm); push (comm, lower) }
RECURSIVE CommPositions(_, _, _, _)
CommPositions(upper, lower, j, comm) ==
    IF j >= Len(upper) \/ j >= Len(lower)
    THEN <<>>
    ELSE << <<upper[j + 1], comm>>, <<comm, lower[j + 1]>> >>
             \o CommPositions(upper, lower, j + 1, comm)

\* The second for over the boundaries, with the counter comm (comm += 1).
RECURSIVE CommBoundaries(_, _, _, _)
CommBoundaries(layers, b, ins, comm) ==
    IF b + 1 > Len(layers)
    THEN <<>>
    ELSE CommPositions(layers[b], layers[b + 1], ins, comm)
             \o CommBoundaries(layers, b + 1, ins, comm + 1)

\* A hub numbering that starts at the last layer's first id.
CommStartLastLayer(ins, outs, layer_count) == (ins + outs) * (layer_count - 1)

\* let mut comm = (inside + outside) * n_layers;
CommStart(ins, outs, layer_count) == (ins + outs) * layer_count

comp_graph(ins, outs, layer_count) ==
    IF layer_count <= 1 \/ ins + outs = 0
    THEN <<>>
    ELSE LET layers == create_layers(ins + outs, layer_count)
             neighbor == NeighborBoundaries(layers, 1, ins + outs)
         IN  IF outs = 0
             THEN neighbor
             ELSE neighbor
                      \o CommBoundaries(layers, 1, ins, CommStart(ins, outs, layer_count))

InitComp ==
    /\ RandIdle
    /\ CycIdle
    /\ CubeIdle
    /\ RepeatIdle
    /\ inside \in 0..MaxSide
    /\ outside \in 0..MaxSide
    /\ n_layers \in 0..MaxLayers
    /\ comp_pc = "call"
    /\ comp_ret = <<>>

\* comp_graph(inside, outside, n_layers)
CompGraphCall ==
    /\ comp_pc = "call"
    /\ comp_ret' = comp_graph(inside, outside, n_layers)
    /\ comp_pc' = "done"
    /\ UNCHANGED <<inside, outside, n_layers, randVars, cycVars, cubeVars, repeatVars>>

NextComp == CompGraphCall

SpecComp == InitComp /\ [][NextComp]_vars

\* ---------------------------------------------------------------- CubeGraph

\* CubeGraph::new: cubes[t][x][y][z] = id, id counting up from 0 in the order
\* of the loops (t, then x, then y, then z fastest).
new_cubes(w, h, d, ts) ==
    [t \in 1..ts |-> [x \in 1..w |-> [y \in 1..h |-> [z \in 1..d |->
        (((t - 1) * w + (x - 1)) * h + (y - 1)) * d + (z - 1)]]]]

\* let modifiers = [usize::MAX, 0, 1];
modifiers == <<USIZE_MAX, 0, 1>>

\* self.cubes.get(t).map(|xx| xx.get(x)).flatten().map(|yy| yy.get(y))
\*     .flatten().map(|zz| zz.get(z)).flatten().copied()
cubes_get(cubes, t, x, y, z) ==
    LET c == get(cubes, t)
    IN  IF c = <<>> THEN <<>>
        ELSE LET xx == get(c[1], x)
             IN  IF xx = <<>> THEN <<>>
                 ELSE LET yy == get(xx[1], y)
                      IN  IF yy = <<>> THEN <<>> ELSE get(yy[1], z)

\* The body of the three for loops over the modifiers, for the m-th triple
\* (i, j, k) in loop order, m in 0..26: the neighbour pushed, if any.
NeighborFor(cubes, x, y, z, ts, m) ==
    LET i == modifiers[(m \div 9) + 1]
        j == modifiers[((m \div 3) % 3) + 1]
        k == modifiers[(m % 3) + 1]
    IN  IF i = 0 /\ j = 0 /\ k = 0
        THEN <<>>                                           \* continue
        ELSE cubes_get(cubes, ts + 1, wrapping_add(x, i), wrapping_add(y, j),
                       wrapping_add(z, k))

RECURSIVE NeighborsFrom(_, _, _, _, _, _)
NeighborsFrom(cubes, x, y, z, ts, m) ==
    IF m > 26
    THEN <<>>
    ELSE NeighborFor(cubes, x, y, z, ts, m) \o NeighborsFrom(cubes, x, y, z, ts, m + 1)

get_neighbors(cubes, x, y, z, ts) == NeighborsFrom(cubes, x, y, z, ts, 0)

\* CubeGraph::is_outer_vertex
is_outer_vertex(x, y, z, w, h, d) ==
    \/ x = 0 \/ x = w - 1
    \/ y = 0 \/ y = h - 1
    \/ z = 0 \/ z = d - 1

\* The body of the innermost for of CubeGraph::build at (ts, x, y, z).
CubeCellEdges(cubes, w, h, d, ts, x, y, z, comm_id) ==
    LET cur == cubes[ts + 1][x + 1][y + 1][z + 1]
        n == get_neighbors(cubes, x, y, z, ts)
    IN  [m \in 1..Len(n) |-> <<cur, n[m]>>]
            \o (IF is_outer_vertex(x, y, z, w, h, d)
                THEN << <<cur, comm_id>>,
                        <<comm_id, cubes[ts + 2][x + 1][y + 1][z + 1]>> >>
                ELSE <<>>)

\* The four nested for loops of CubeGraph::build, from the q-th iteration on
\* (q counts the cells in loop order: ts, then x, then y, then z); comm_id
\* starts at width * height * depth * timesteps and goes up by one per ts.
RECURSIVE CubeLoops(_, _, _, _, _, _)
CubeLoops(cubes, w, h, d, ts_count, q) ==
    LET cells == w * h * d
    IN  IF q >= (ts_count - 1) * cells
        THEN <<>>
        ELSE LET ts == q \div cells
                 r == q % cells
             IN  CubeCellEdges(cubes, w, h, d, ts,
                               r \div (h * d), (r \div d) % h, r % d,
                               cells * ts_count + ts)
                     \o CubeLoops(cubes, w, h, d, ts_count, q + 1)

Panicked == [outcome |-> "panic", edges |-> <<>>]

\* CubeGraph::new(w, h, d, ts).build(). self.timesteps - 1 with timesteps = 0
\* panics when the build checks overflow; otherwise it wraps to usize::MAX,
\* and the first cell read, self.cubes[0], is out of range (the loops over
\* the cells are empty when a dimension is 0, and nothing is pushed).
CubeGraph_build(w, h, d, ts_count, checks) ==
    IF ts_count = 0
    THEN IF checks \/ w * h * d > 0
         THEN Panicked
         ELSE [outcome |-> "ok", edges |-> <<>>]
    ELSE [outcome |-> "ok",
          edges |-> CubeLoops(new_cubes(w, h, d, ts_count), w, h, d, ts_count, 0)]

\* ------------------------------------------------------------- CubeGraphOld

\* let ops = [0, 1, -1];
ops == <<0, 1, -1>>

\* CubeGraphOld::calc_neighbor
calc_neighbor(id, i, j, k, w, d) ==
    id + d * w * ops[i + 1] + 1 * ops[j + 1] + d * ops[k + 1]

\* CubeGraphOld::x, y (ids here are never negative)
old_x(id, d) == id % d
old_y(id, w, d) == id \div (w * d)

abs_diff(a, b) == IF a >= b THEN a - b ELSE b - a

\* CubeGraphOld::get_neighbor_indices
get_neighbor_indices(id, w, h, d) ==
    SelectSeq([m \in 1..27 |->
                   calc_neighbor(id, (m - 1) \div 9, ((m - 1) \div 3) % 3, (m - 1) % 3, w, d)],
              LAMBDA n : /\ n >= 0
                         /\ n < w * h * d
                         /\ abs_diff(old_y(id, w, d), old_y(n, w, d)) <= 1
                         /\ abs_diff(old_x(id, d), old_x(n, d)) <= 1)

\* CubeGraphOld::is_outer_vertex
old_is_outer_vertex(id, w, h, d) ==
    \/ id < d * w
    \/ id >= d * w * (h - 1)
    \/ id % d = 0
    \/ id % d = d - 1
    \/ id % (d * w) < d
    \/ id % (d * w) >= (d - 1) * w

\* The body of for id in 0..number_of_vertices, as the set of edges pushed.
OldCellEdges(id, step, w, h, d, ts_count) ==
    LET number_of_vertices == w * h * d
        comm == step + number_of_vertices * ts_count
        n == get_neighbor_indices(id, w, h, d)
    IN  {<<id, n[m] + (step + 1) * number_of_vertices>> : m \in 1..Len(n)}
            \cup (IF old_is_outer_vertex(id, w, h, d)
                  THEN {<<id, comm>>, <<comm, id + (step + 1) * number_of_vertices>>}
                  ELSE {})

\* CubeGraphOld::new(w, h, d, ts).build(): the edges pushed go through a
\* HashSet, so what is returned is that set in the order its iteration
\* gives; the model keeps the set. timesteps is an isize: 0..(0 - 1) is empty.
CubeGraphOld_build(w, h, d, ts_count) ==
    IF h < 3 \/ w < 3 \/ d < 3
    THEN [outcome |-> "ok", edges |-> {}]
    ELSE [outcome |-> "ok",
          edges |-> UNION {OldCellEdges(id, step, w, h, d, ts_count) :
                              id \in 0..(w * h * d - 1), step \in 0..(ts_count - 2)}]

InitCube ==
    /\ RandIdle
    /\ CycIdle
    /\ CompIdle
    /\ RepeatIdle
    /\ timesteps \in 0..MaxTimesteps
    /\ builder \in {"CubeGraph", "CubeGraphOld"}
    /\ width \in 0..MaxDim
    /\ height \in 0..MaxDim
    /\ depth \in 0..MaxDim
    /\ overflow_checks \in BOOLEAN
    /\ cube_pc = "new"
    /\ cube_ret = NoCubeRet

\* CubeGraph::new(width, height, depth, timesteps).build()
CubeGraphBuild ==
    /\ cube_pc = "new"
    /\ builder = "CubeGraph"
    /\ cube_ret' = CubeGraph_build(width, height, depth, timesteps, overflow_checks)
    /\ cube_pc' = "done"
    /\ UNCHANGED <<builder, width, height, depth, timesteps, overflow_checks>>
    /\ UNCHANGED <<randVars, cycVars, compVars, repeatVars>>

\* CubeGraphOld::new(width, height, depth, timesteps).build()
CubeGraphOldBuild ==
    /\ cube_pc = "new"
    /\ builder = "CubeGraphOld"
    /\ cube_ret' = CubeGraphOld_build(width, height, depth, timesteps)
    /\ cube_pc' = "done"
    /\ UNCHANGED <<builder, width, height, depth, timesteps, overflow_checks>>
    /\ UNCHANGED <<randVars, cycVars, compVars, repeatVars>>

NextCube == CubeGraphBuild \/ CubeGraphOldBuild

SpecCube == InitCube /\ [][NextCube]_vars

\* ------------------------------------- one builder called twice, same input

\* The elements of a set of edges in the order of (tail, head): the order of
\* the Vec that into_iter().collect() makes is this list turned by the key.
EdgesInOrder(S) ==
    LET ids == UNION {{e[1], e[2]} : e \in S}
        top == IF ids = {} THEN 0 ELSE CHOOSE m \in ids : \A i \in ids : i <= m
    IN  SelectSeq([i \in 1..((top + 1) * (top + 1)) |->
                       <<(i - 1) \div (top + 1), (i - 1) % (top + 1)>>],
                  LAMBDA e : e \in S)

\* .into_iter().collect() of the HashSet: the set's elements in the order
\* its iteration gives, which the keys of the set's RandomState decide
\* (collect::<HashSet<_>>() makes the set with RandomState::default(), whose
\* keys are new for every set). key stands for those keys.
HashSetIntoIter(S, key) ==
    LET v == EdgesInOrder(S)
        n == Len(v)
    IN  [i \in 1..n |-> v[((i - 1 + key) % n) + 1]]

\* What one call returns, as [outcome, edges] with edges the Vec returned.
CompGraphRet == [outcome |-> "ok", edges |-> comp_graph(inside, outside, n_layers)]
CubeGraphRet == CubeGraph_build(width, height, depth, timesteps, overflow_checks)
CubeGraphOldRet(key) ==
    LET r == CubeGraphOld_build(width, height, depth, timesteps)
    IN  [outcome |-> r.outcome, edges |-> HashSetIntoIter(r.edges, key)]

\* The arguments of the builder called: those of the others stay unused.
InitRepeat ==
    /\ RandIdle
    /\ CycIdle
    /\ builder \in {"comp_graph", "CubeGraph", "CubeGraphOld"}
    /\ inside \in (IF builder = "comp_graph" THEN 0..MaxSide ELSE {0})
    /\ outside \in (IF builder = "comp_graph" THEN 0..MaxSide ELSE {0})
    /\ n_layers \in (IF builder = "comp_graph" THEN 0..MaxLayers ELSE {0})
    /\ comp_pc = "idle"
    /\ comp_ret = <<>>
    /\ width \in (IF builder = "comp_graph" THEN {0} ELSE 0..MaxRepeatDim)
    /\ height \in (IF builder = "comp_graph" THEN {0} ELSE 0..MaxRepeatDim)
    /\ depth \in (IF builder = "comp_graph" THEN {0} ELSE 0..MaxRepeatDim)
    /\ timesteps \in (IF builder = "comp_graph" THEN {0} ELSE 0..MaxTimesteps)
    /\ overflow_checks \in (IF builder = "CubeGraph" THEN BOOLEAN ELSE {FALSE})
    /\ cube_pc = "idle"
    /\ cube_ret = NoCubeRet
    /\ repeat_pc = "start"
    /\ first_ret = NoCubeRet
    /\ second_ret = NoCubeRet

\* The first call stores its return in first_ret, the second in second_ret.
Returned(ret) ==
    /\ repeat_pc \in {"start", "once"}
    /\ IF repeat_pc = "start"
       THEN first_ret' = ret /\ repeat_pc' = "once" /\ UNCHANGED second_ret
       ELSE second_ret' = ret /\ repeat_pc' = "twice" /\ UNCHANGED first_ret
    /\ UNCHANGED <<randVars, cycVars, compVars, cubeVars>>

\* comp_graph(inside, outside, n_layers)
CompGraphRepeat == builder = "comp_graph" /\ Returned(CompGraphRet)

\* CubeGraph::new(width, height, depth, timesteps).build()
CubeGraphRepeat == builder = "CubeGraph" /\ Returned(CubeGraphRet)

\* CubeGraphOld::new(width, height, depth, timesteps).build()
CubeGraphOldRepeat ==
    /\ builder = "CubeGraphOld"
    /\ \E key \in 0..MaxHashKey : Returned(CubeGraphOldRet(key))

NextRepeat == CompGraphRepeat \/ CubeGraphRepeat \/ CubeGraphOldRepeat

SpecRepeat == InitRepeat /\ [][NextRepeat]_vars

\* ------------------------------------------------- graph notions (claims)

EdgeSet(es) == {es[i] : i \in 1..Len(es)}

\* The vertices reachable from the set S along the edges E, S included.
RECURSIVE ReachFrom(_, _)
ReachFrom(E, S) ==
    LET T == S \cup {e[2] : e \in {f \in E : f[1] \in S}}
    IN  IF T = S THEN S ELSE ReachFrom(E, T)

\* Some vertex reaches itself along one or more edges.
HasDirectedCycle(es) ==
    \E e \in EdgeSet(es) : e[1] \in ReachFrom(EdgeSet(es), {e[2]})

PairwiseDistinct(es) ==
    \A i, j \in 1..Len(es) : i # j => es[i] # es[j]

\* Some draw of the inner loop, with the anchor edge as it is, is accepted.
AcceptedDrawExists ==
    \E s \in SuccessorDraws(num_edges), k \in PredecessorDraws :
        LoopBody(edges, current_edge, s, k).brk

\* Some draw of the inner loop is turned down by contains_cycle.
CycleRejectedDrawExists ==
    \E s \in SuccessorDraws(num_edges), k \in PredecessorDraws :
        LET next_edge == <<current_edge[k + 1], s>>
        IN  /\ s # current_edge[k + 1]
            /\ NotPresent(edges, next_edge)
            /\ contains_cycle(Append(edges, next_edge))

\* ------------------------------------------------------------------ claims

\* C1: for num_edges n >= 1 and any draws, at the start of every outer-loop
\* iteration, inside the loop and at the return, the edge list holds at most
\* n edges, pairwise distinct ordered pairs, every vertex id in [0, n], and
\* no directed cycle; the returned list holds exactly n edges.
C1_BuildEdgesAcyclic ==
    (num_edges >= 1 /\ pc \in {"while", "loop", "done"}) =>
        /\ Len(edges) >= 1
        /\ Len(edges) <= num_edges
        /\ PairwiseDistinct(edges)
        /\ \A i \in 1..Len(edges) :
               edges[i][1] \in 0..num_edges /\ edges[i][2] \in 0..num_edges
        /\ ~HasDirectedCycle(edges)
        /\ (pc = "done" => Len(edges) = num_edges)

\* C1 witness: build_edges has returned a list of three or more edges.
C1_Witness == pc = "done" /\ num_edges >= 3 /\ Len(edges) = num_edges

\* C3: with num_edges = 0 the build fails at once: it neither enters the
\* rejection loop nor returns an edge collection.
C3_ZeroFailsFast == num_edges = 0 => (pc # "loop" /\ pc # "done")

\* C10: for num_edges n >= 1 build_edges terminates: in every state of the
\* inner loop some draw of anchor endpoint and candidate vertex is accepted,
\* and under a fair random source the build returns, with n edges.
C10_Terminates ==
    /\ [](pc = "loop" => AcceptedDrawExists)
    /\ <>(pc = "done" /\ (num_edges >= 1 => Len(edges) = num_edges))

\* C10 witness: inside the inner loop with two edges held, where some draw
\* is turned down by the cycle check (and another must be found).
C10_Witness == pc = "loop" /\ Len(edges) >= 2 /\ CycleRejectedDrawExists

\* C2: contains_cycle returns true for every list of ordered pairs in which
\* some vertex reaches itself along one or more edges, whatever the order of
\* the list, self-loops and cycles away from the first edge included.
C2_CycleReported ==
    (cc_ret # "none" /\ HasDirectedCycle(cc_edges)) => cc_ret = "true"

\* C2 witness: the test's list {(0,1),(0,5),(0,2),(2,5),(5,0)} was checked
\* and a cycle reported.
C2_Witness == cc_edges = TestEdges /\ cc_ret = "true"

\* The edges the claim C4 lists for boundary i and position p, s per layer.
C4_EdgesAt(i, p, s) ==
    (IF p >= 1 THEN << <<i * s + p, (i + 1) * s + p - 1>> >> ELSE <<>>)
        \o << <<i * s + p, (i + 1) * s + p>> >>
        \o (IF p + 1 < s THEN << <<i * s + p, (i + 1) * s + p + 1>> >> ELSE <<>>)

\* ... for the boundaries in order and, in each, the positions in order:
\* the k-th (boundary, position) pair on, of total.
RECURSIVE C4_EdgesFrom(_, _, _)
C4_EdgesFrom(k, total, s) ==
    IF k >= total
    THEN <<>>
    ELSE C4_EdgesAt(k \div s, k % s, s) \o C4_EdgesFrom(k + 1, total, s)

\* C4: comp_graph returns the empty list when n_layers <= 1 or
\* inside + outside = 0; otherwise its edges between structural vertices
\* (ids below s * n_layers, s = inside + outside) are, in order, for each
\* boundary and each position p the left edge only when p >= 1, the straight
\* edge, the right edge only when p + 1 < s; with outside = 0 they are the
\* whole output.
C4_StructuralEdges ==
    comp_pc = "done" =>
        LET s == inside + outside
            structural == SelectSeq(comp_ret,
                LAMBDA e : e[1] < s * n_layers /\ e[2] < s * n_layers)
        IN  IF n_layers <= 1 \/ s = 0
            THEN comp_ret = <<>>
            ELSE /\ structural = C4_EdgesFrom(0, (n_layers - 1) * s, s)
                 /\ (outside = 0 => comp_ret = structural)

\* C4 witness: a call with three layers of three positions and no outside
\* position has returned its (fourteen) edges.
C4_Witness ==
    /\ comp_pc = "done"
    /\ inside = 3 /\ outside = 0 /\ n_layers = 3
    /\ Len(comp_ret) = 14

\* C5: with outside > 0 and n_layers >= 2, the vertex ids at or above
\* s * n_layers that appear are exactly the n_layers - 1 hubs
\* s * n_layers + i, and the edges touching a hub are exactly, once each,
\* (i*s + j, hub_i) and (hub_i, (i+1)*s + j) for every boundary i and every
\* position j in [inside, s).
C5_HubEdges ==
    (comp_pc = "done" /\ outside > 0 /\ n_layers >= 2) =>
        LET s == inside + outside
            first == s * n_layers
            hubEdges == SelectSeq(comp_ret,
                LAMBDA e : e[1] >= first \/ e[2] >= first)
            hubs == {v \in {e[1] : e \in EdgeSet(comp_ret)}
                               \cup {e[2] : e \in EdgeSet(comp_ret)} : v >= first}
        IN  /\ hubs = {first + i : i \in 0..(n_layers - 2)}
            /\ Cardinality(hubs) = n_layers - 1
            /\ EdgeSet(hubEdges) =
                   {<<i * s + j, first + i>> :
                        i \in 0..(n_layers - 2), j \in inside..(s - 1)}
                   \cup {<<first + i, (i + 1) * s + j>> :
                        i \in 0..(n_layers - 2), j \in inside..(s - 1)}
            /\ Len(hubEdges) = 2 * (n_layers - 1) * outside

\* C5 witness: a call with inside and outside positions and three layers
\* has returned; its second boundary's hub is in the output.
C5_Witness ==
    /\ comp_pc = "done"
    /\ inside = 2 /\ outside = 2 /\ n_layers = 3
    /\ <<6, 13>> \in EdgeSet(comp_ret)

\* ------------------------------------------------ cube notions (claims)

\* The edges build returned, as a set.
CubeEdges ==
    IF builder = "CubeGraph" THEN EdgeSet(cube_ret.edges) ELSE cube_ret.edges

\* The number of cells of one timestep.
CubeCells == width * height * depth

\* The sizes of the three axes in the order the builder nests them in its
\* ids (the last one fastest): CubeGraph numbers cubes[x][y][z] with x over
\* width, y over height, z over depth; CubeGraphOld has
\* id = y * (width * depth) + z * depth + x with y over height, z over
\* width, x over depth.
AxisSizes ==
    IF builder = "CubeGraph"
    THEN <<width, height, depth>>
    ELSE <<height, width, depth>>

\* The id, within its timestep, of the cell at (a, b, c) along those axes.
CellId(a, b, c) == (a * AxisSizes[2] + b) * AxisSizes[3] + c

CellCoords ==
    (0..(AxisSizes[1] - 1)) \X (0..(AxisSizes[2] - 1)) \X (0..(AxisSizes[3] - 1))

InsideCube(a, b, c) == <<a, b, c>> \in CellCoords

\* On one of the six faces.
OuterCell(a, b, c) ==
    \/ a = 0 \/ a = AxisSizes[1] - 1
    \/ b = 0 \/ b = AxisSizes[2] - 1
    \/ c = 0 \/ c = AxisSizes[3] - 1

\* Vertex v is a cell of timestep t.
InTimestep(v, t) == v >= t * CubeCells /\ v < (t + 1) * CubeCells

HubOf(t) == CubeCells * timesteps + t

CubeBuilt == cube_pc = "done" /\ cube_ret.outcome = "ok"

DimsAtLeast3 == width >= 3 /\ height >= 3 /\ depth >= 3

\* C6: for both builders with w, h, d >= 3, the cell-to-cell edges are
\* exactly, for each timestep t in [0, T-1) and each cell c, the edges from
\* c at t to the cell at each of the 27 offsets in {-1,0,1}^3 (the zero
\* offset included) at t + 1 whose target stays inside the cube on every
\* axis: the straight edge is always there, nothing wraps.
C6_CellNeighbourhood ==
    (CubeBuilt /\ DimsAtLeast3) =>
        {e \in CubeEdges :
            e[1] < CubeCells * timesteps /\ e[2] < CubeCells * timesteps}
        = {<<q[1] * CubeCells + CellId(q[2][1], q[2][2], q[2][3]),
             (q[1] + 1) * CubeCells
                 + CellId(q[2][1] + q[3][1], q[2][2] + q[3][2], q[2][3] + q[3][3])>> :
              q \in {r \in (0..(timesteps - 2)) \X CellCoords
                                \X ((-1..1) \X (-1..1) \X (-1..1)) :
                        InsideCube(r[2][1] + r[3][1], r[2][2] + r[3][2],
                                   r[2][3] + r[3][3])}}

\* C7: in the output of both builders every edge between two cells goes
\* from timestep t to timestep t + 1, every hub edge (c, N*T + t) has c in
\* timestep t and every hub edge (N*T + t, c') has c' in timestep t + 1, for
\* some t in [0, T-1); there is no other edge.
C7_TimestepLayering ==
    CubeBuilt =>
        \A e \in CubeEdges :
            \E t \in 0..(timesteps - 2) :
                \/ InTimestep(e[1], t) /\ InTimestep(e[2], t + 1)
                \/ InTimestep(e[1], t) /\ e[2] = HubOf(t)
                \/ e[1] = HubOf(t) /\ InTimestep(e[2], t + 1)

\* C8: in both builders, for w, h, d >= 3 and every boundary t, the edges
\* touching hub_t = w*h*d*T + t are exactly (c at t, hub_t) and
\* (hub_t, c at t + 1) for the cells c with a coordinate equal to 0 or to
\* its axis's size - 1; interior cells have no hub edge.
C8_OuterHubEdges ==
    (CubeBuilt /\ DimsAtLeast3) =>
        \A t \in 0..(timesteps - 2) :
            {e \in CubeEdges : e[1] = HubOf(t) \/ e[2] = HubOf(t)}
            = UNION {{<<t * CubeCells + CellId(c[1], c[2], c[3]), HubOf(t)>>,
                      <<HubOf(t), (t + 1) * CubeCells + CellId(c[1], c[2], c[3])>>} :
                        c \in {o \in CellCoords : OuterCell(o[1], o[2], o[3])}}

\* C9: for both builders, whenever width, height or depth is below 3 the
\* call returns (no fault) an empty edge collection, whatever timesteps is.
C9_SmallCubeEmpty ==
    (cube_pc = "done" /\ (width < 3 \/ height < 3 \/ depth < 3)) =>
        (cube_ret.outcome = "ok" /\ CubeEdges = {})

\* C11: a deterministic builder called twice with the same arguments
\* (comp_graph, CubeGraph::build or CubeGraphOld::build) returns the same
\* edges in the same order both times, whatever the iteration order of the
\* set used for deduplication.
C11_RepeatedCallsAgree == repeat_pc = "twice" => first_ret = second_ret

\* C12: contains_cycle reports a cycle only when there is one: for every
\* edge list with no directed cycle (two paths reaching the same edge
\* included) it returns false.
C12_NoFalsePositive == cc_ret = "true" => HasDirectedCycle(cc_edges)

====
